---- MODULE Spec2Model ----
(***************************************************************************)
(* A model of the Uno rules engine of papalotis/uno (src/uno/main.py).     *)
(*                                                                         *)
(* The GameManager is one record, gm, with the fields of the dataclass.    *)
(* Every call of a public operation is one step: it records the state      *)
(* before the call in pre and what the call did in last, so that the       *)
(* effect of a call (success or raised error) is a predicate on one state. *)
(*                                                                         *)
(* Python's None is the string "None" for an optional colour and the empty *)
(* sequence for an optional card (a chosen card c is <<c>>).               *)
(***************************************************************************)
EXTENDS Integers, Sequences, FiniteSets, Bags, TLC

VARIABLES gm, pre, last, pc

vars == <<gm, pre, last, pc>>

(***************************************************************************)
(* Bounds of the exploration.                                              *)
(***************************************************************************)
\* the largest number of players a game is constructed with (the code: 2..10)
MaxPlayers == 3
\* the largest number_of_cards_to_start_with a game is constructed with
MaxStartCards == 2
\* the largest round_limit a game is constructed with
MaxRoundLimit == 3
\* how often _pick_first_card may draw a wildcard and start over
MaxRedraws == 1
\* the largest number_of_cards_to_start_with of the setups explored on their
\* own: large enough for a deal that needs more cards than the deck holds
MaxSetupStartCards == 3
\* the largest deck remove_card and draw_random_card are called on
MaxDeckCards == 3
\* the largest number of players a GameManager construction is tried with
\* (the code accepts up to 10)
MaxNewPlayers == 11
\* the largest hand BasicAIPlayer.get_card_to_play is called with
MaxHandCards == 3

(***************************************************************************)
(* src/uno/enums.py                                                        *)
(***************************************************************************)
RED == "RED"
BLUE == "BLUE"
GREEN == "GREEN"
YELLOW == "YELLOW"
WILDCARD == "WILDCARD"
CardColor == {RED, BLUE, GREEN, YELLOW, WILDCARD}
non_wildcard_colors == CardColor \ {WILDCARD}
None == "None"

ZERO == 0
SKIP == 10
REVERSE == 11
DRAW_2 == 12
DRAW_4 == 13
PICK_COLOR == 14
CardValue == ZERO..PICK_COLOR

is_draw_value(value) == value \in {DRAW_2, DRAW_4}

(***************************************************************************)
(* Card (src/uno/main.py)                                                  *)
(***************************************************************************)
is_wild_card(card) == card.color = WILDCARD /\ card.value >= DRAW_4

is_color_card(card) == card.color # WILDCARD /\ card.value < DRAW_4

\* a check that lets every value pass on a wildcard
check_valid_any_wildcard(card) == card.color = WILDCARD \/ is_color_card(card)

check_valid(card) == is_wild_card(card) \/ is_color_card(card)

\* Card.__post_init__: the error constructing Card(color, value) raises
card_post_init(color, value) ==
    IF check_valid([color |-> color, value |-> value])
    THEN None ELSE "InvalidCardError"

\* Card.create_card_safe over every (colour, value): the cards that exist
ValidCards ==
    {card \in [color : CardColor, value : CardValue] : check_valid(card)}

Card(color, value) == [color |-> color, value |-> value]

\* a count that takes the zero cards for ordinary colour cards
number_of_instances_two_zeros(card) ==
    IF is_wild_card(card) THEN 4 ELSE 2

number_of_instances_in_full_deck(card) ==
    IF is_wild_card(card) THEN 4
    ELSE IF card.value = ZERO THEN 1
    ELSE 2

\* a legality check that lets any draw card continue a draw chain
can_be_played_on_top_of_other_any_draw(self, down_card, down_wildcard_color, in_draw_chain) ==
    IF in_draw_chain
    THEN IF ~is_draw_value(down_card.value)
         THEN "InDrawChainButWrongTopCardError"
         ELSE IF is_draw_value(self.value) THEN "True" ELSE "False"
    ELSE IF is_color_card(self)
    THEN IF is_color_card(down_card)
         THEN IF down_wildcard_color # None
              THEN "ValueError"
              ELSE IF self.color = down_card.color \/ self.value = down_card.value
                   THEN "True" ELSE "False"
         ELSE IF down_wildcard_color = None \/ down_wildcard_color = WILDCARD
              THEN "ValueError"
              ELSE IF self.color = down_wildcard_color THEN "True" ELSE "False"
    ELSE "True"

\* a legality test that knows colours only: an equal value does not count
can_be_played_on_top_of_other_color_only(self, down_card, down_wildcard_color, in_draw_chain) ==
    IF in_draw_chain
    THEN IF ~is_draw_value(down_card.value)
         THEN "InDrawChainButWrongTopCardError"
         ELSE IF self.value = down_card.value THEN "True" ELSE "False"
    ELSE IF is_color_card(self)
    THEN IF is_color_card(down_card)
         THEN IF down_wildcard_color # None
              THEN "ValueError"
              ELSE IF self.color = down_card.color THEN "True" ELSE "False"
         ELSE IF down_wildcard_color = None \/ down_wildcard_color = WILDCARD
              THEN "ValueError"
              ELSE IF self.color = down_wildcard_color THEN "True" ELSE "False"
    ELSE "True"

\* a legality test that does not look at the top card of a draw chain
can_be_played_on_top_of_other_unchecked_chain(self, down_card, down_wildcard_color, in_draw_chain) ==
    IF in_draw_chain
    THEN IF self.value = down_card.value THEN "True" ELSE "False"
    ELSE IF is_color_card(self)
    THEN IF is_color_card(down_card)
         THEN IF down_wildcard_color # None
              THEN "ValueError"
              ELSE IF self.color = down_card.color \/ self.value = down_card.value
                   THEN "True" ELSE "False"
         ELSE IF down_wildcard_color = None \/ down_wildcard_color = WILDCARD
              THEN "ValueError"
              ELSE IF self.color = down_wildcard_color THEN "True" ELSE "False"
    ELSE "True"

\* The result of the legality check: "True", "False", or the error it raises.
can_be_played_on_top_of_other(self, down_card, down_wildcard_color, in_draw_chain) ==
    IF in_draw_chain
    THEN IF ~is_draw_value(down_card.value)
         THEN "InDrawChainButWrongTopCardError"
         ELSE IF self.value = down_card.value THEN "True" ELSE "False"
    ELSE IF is_color_card(self)
    THEN IF is_color_card(down_card)
         THEN IF down_wildcard_color # None
              THEN "ValueError"
              ELSE IF self.color = down_card.color \/ self.value = down_card.value
                   THEN "True" ELSE "False"
         ELSE IF down_wildcard_color = None \/ down_wildcard_color = WILDCARD
              THEN "ValueError"
              ELSE IF self.color = down_wildcard_color THEN "True" ELSE "False"
    ELSE "True"

(***************************************************************************)
(* Deck: the list of cards is a bag, since the code only ever draws a      *)
(* random member, tests membership and removes one equal card.             *)
(***************************************************************************)
SeqToBag(s) ==
    [c \in {s[i] : i \in DOMAIN s} |-> Cardinality({i \in DOMAIN s : s[i] = c})]

\* Deck.create_full_deck: every valid card, as often as a full deck holds it
create_full_deck ==
    [card \in ValidCards |-> number_of_instances_in_full_deck(card)]

\* The cards the explored games are played with: a part of the full deck,
\* small enough for the deals to be enumerated.
GameCards ==
    <<Card(RED, ZERO), Card(RED, SKIP), Card(RED, REVERSE), Card(RED, DRAW_2),
      Card(BLUE, DRAW_2), Card(WILDCARD, DRAW_4), Card(WILDCARD, DRAW_4)>>

GameDeck == SeqToBag(GameCards)

\* Deck.remove_card on a deck known to hold the card
remove_card(cards, card) == cards (-) SetToBag({card})

\* list.remove(card): the first equal card leaves the list
RECURSIVE list_remove(_, _)
list_remove(s, card) ==
    IF s = <<>> THEN s
    ELSE IF Head(s) = card THEN Tail(s)
    ELSE <<Head(s)>> \o list_remove(Tail(s), card)

\* a removal that takes every copy of the card out of the deck
Deck_remove_card_all_copies(cards, card) ==
    IF BagCardinality(cards) = 0
    THEN [cards |-> cards, error |-> "ValueError: Deck is empty"]
    ELSE IF ~BagIn(card, cards)
    THEN [cards |-> cards, error |-> "ValueError: is not in the deck"]
    ELSE [cards |-> [c \in (DOMAIN cards) \ {card} |-> cards[c]], error |-> None]

\* Deck.remove_card as a call: the deck it leaves and the error it raises;
\* both errors are ValueError and differ in their message
Deck_remove_card(cards, card) ==
    IF BagCardinality(cards) = 0
    THEN [cards |-> cards, error |-> "ValueError: Deck is empty"]
    ELSE IF ~BagIn(card, cards)
    THEN [cards |-> cards, error |-> "ValueError: is not in the deck"]
    ELSE [cards |-> remove_card(cards, card), error |-> None]

\* Deck.draw_random_card: random.choice of the list, then remove_card of the
\* chosen card; random.choice of an empty list raises IndexError before
\* remove_card is called.  One outcome for every card that can be chosen.
Deck_draw_random_card(cards) ==
    IF BagCardinality(cards) = 0
    THEN {[cards |-> cards, card |-> <<>>, error |-> "IndexError"]}
    ELSE {[cards |-> Deck_remove_card(cards, card).cards,
           card |-> IF Deck_remove_card(cards, card).error = None
                    THEN <<card>> ELSE <<>>,
           error |-> Deck_remove_card(cards, card).error] :
          card \in BagToSet(cards)}

InList(card, s) == \E i \in DOMAIN s : s[i] = card

(***************************************************************************)
(* Player                                                                  *)
(***************************************************************************)
\* a hand that takes two copies of every card it is given
receive_card_twice(hand, card) == Append(Append(hand, card), card)

\* Player.receive_card: the card is appended to the hand
receive_card(hand, card) == Append(hand, card)

\* a removal that takes every copy of the card out of the hand
remove_card_from_player_all_copies(hand, card) ==
    SelectSeq(hand, LAMBDA c : c # card)

\* Player.remove_card_from_player, for a card the hand holds
remove_card_from_player(hand, card) == list_remove(hand, card)

(***************************************************************************)
(* BasicAIPlayer                                                           *)
(***************************************************************************)
\* VALUE_POWER
\* a ranking that puts Reverse above Skip
VALUE_POWER_reverse_over_skip(value) ==
    IF value < SKIP THEN 0
    ELSE IF value = REVERSE THEN 2
    ELSE IF value = SKIP THEN 1
    ELSE IF value = PICK_COLOR THEN 3
    ELSE IF value = DRAW_2 THEN 4
    ELSE 5

VALUE_POWER(value) ==
    IF value < SKIP THEN 0
    ELSE IF value = REVERSE THEN 1
    ELSE IF value = SKIP THEN 2
    ELSE IF value = PICK_COLOR THEN 3
    ELSE IF value = DRAW_2 THEN 4
    ELSE 5

\* Counter(colors).most_common()[0][0] over the colour cards of the hand: the
\* most frequent colour, the one met first in the hand among equals
most_common_color(hand) ==
    LET colored == {i \in DOMAIN hand : ~is_wild_card(hand[i])}
        count(i) == Cardinality({j \in colored : hand[j].color = hand[i].color})
        first(i) == \A k \in colored : hand[k].color = hand[i].color => i <= k
        best == CHOOSE i \in colored :
                   /\ first(i)
                   /\ \A j \in colored :
                          \/ count(j) < count(i)
                          \/ count(j) = count(i) /\ (first(j) => i <= j)
    IN  hand[best].color

\* a player that names the first card of its hand, legal or not
get_card_to_play_first_card(hand, top, top_card_wildcard_color, in_draw_chain) ==
    IF hand = <<>>
    THEN [move |-> <<>>, color |-> None, error |-> None]
    ELSE [move |-> <<hand[1]>>,
          color |-> IF is_wild_card(hand[1]) THEN RED ELSE None,
          error |-> None]

\* BasicAIPlayer.get_card_to_play: the move (<<>> or <<card>>) and the colour
\* it returns, or the error the legality check raised on the first card that
\* raises one
get_card_to_play(hand, top, top_card_wildcard_color, in_draw_chain) ==
    LET legal(i) == can_be_played_on_top_of_other(
                        hand[i], top, top_card_wildcard_color, in_draw_chain)
        raising == {i \in DOMAIN hand : legal(i) \notin {"True", "False"}}
        cards_that_can_be_played == {i \in DOMAIN hand : legal(i) = "True"}
        best == CHOOSE i \in cards_that_can_be_played :
                   /\ \A j \in cards_that_can_be_played :
                          VALUE_POWER(hand[j].value) <= VALUE_POWER(hand[i].value)
                   /\ \A j \in cards_that_can_be_played :
                          VALUE_POWER(hand[j].value) = VALUE_POWER(hand[i].value)
                              => i <= j
        colors == {i \in DOMAIN hand : ~is_wild_card(hand[i])}
    IN  IF raising # {}
        THEN [move |-> <<>>, color |-> None,
              error |-> legal(CHOOSE i \in raising : \A j \in raising : i <= j)]
        ELSE IF cards_that_can_be_played = {}
        THEN [move |-> <<>>, color |-> None, error |-> None]
        ELSE [move |-> <<hand[best]>>,
              color |-> IF is_wild_card(hand[best])
                        THEN IF colors = {} THEN RED ELSE most_common_color(hand)
                        ELSE None,
              error |-> None]

(***************************************************************************)
(* GameManager                                                             *)
(***************************************************************************)
NumPlayers(g) == Cardinality(DOMAIN g.players)

\* a check that lets a starting hand of no cards pass
post_init_accepts_no_cards(number_of_players, number_of_cards_to_start_with) ==
    /\ number_of_players \in 2..10
    /\ number_of_cards_to_start_with >= 0

\* GameManager.__post_init__: the configurations the constructor accepts
post_init_accepts(number_of_players, number_of_cards_to_start_with) ==
    /\ number_of_players \in 2..10
    /\ number_of_cards_to_start_with >= 1

\* the dataclass fields of a GameManager that was just constructed;
\* players[p] is the hand of player p
NewGameManager(number_of_players, round_limit, number_of_cards_to_start_with) ==
    [players |-> [p \in 0..(number_of_players - 1) |-> <<>>],
     round_limit |-> round_limit,
     number_of_cards_to_start_with |-> number_of_cards_to_start_with,
     deck |-> GameDeck,
     discard_pile |-> <<>>,
     play_direction |-> 1,
     current_player_index |-> 0,
     draw_chain |-> <<>>,
     round_number |-> 0,
     temporary_top_card_color |-> None,
     next_round_is_skip |-> FALSE]

\* what a call did: the operation, the error it raised ("None": it returned),
\* whether the current player was asked for a move, the move, the return value
Called(op, error, asked, card, color, returned) ==
    [op |-> op, error |-> error, asked |-> asked, card |-> card,
     color |-> color, returned |-> returned]

top_card(g) == g.discard_pile[Len(g.discard_pile)]

\* a game that is over only once the round limit is reached
game_over_ignoring_hands(g) == g.round_number >= g.round_limit

\* a game that is over only once a hand is empty
game_over_ignoring_round_limit(g) ==
    \E p \in DOMAIN g.players : Len(g.players[p]) = 0

game_over(g) ==
    \/ \E p \in DOMAIN g.players : Len(g.players[p]) = 0
    \/ g.round_number >= g.round_limit

\* _find_winner: the first player with an empty hand, as <<p>>, or <<>>
find_winner(g) ==
    IF \E p \in DOMAIN g.players : Len(g.players[p]) = 0
    THEN <<CHOOSE p \in DOMAIN g.players :
              /\ Len(g.players[p]) = 0
              /\ \A q \in DOMAIN g.players : Len(g.players[q]) = 0 => p <= q>>
    ELSE <<>>

RECURSIVE SumDraws(_)
SumDraws(chain) ==
    IF chain = <<>> THEN 0
    ELSE (IF Head(chain).value = DRAW_2 THEN 2 ELSE 4) + SumDraws(Tail(chain))

\* a count that takes every chain entry for a Draw2
calculate_two_cards_per_entry(g) == 2 * Len(g.draw_chain)

calculate_number_of_cards_to_draw_in_current_draw_chain(g) ==
    SumDraws(g.draw_chain)

\* a refill that copies the top card into the deck as well
refill_deck_with_top_card(g) ==
    [g EXCEPT !.deck = SeqToBag(g.discard_pile),
              !.discard_pile = <<top_card(g)>>]

\* _refill_deck: all but the top card of the discard pile become the deck
refill_deck(g) ==
    [g EXCEPT !.deck = SeqToBag(SubSeq(g.discard_pile, 1, Len(g.discard_pile) - 1)),
              !.discard_pile = <<top_card(g)>>]

\* one pass of the loop of _give_player_random_cards for each card still to
\* give: every card the random draw can return is one outcome; an outcome is
\* the manager it leaves and the error it raised
RECURSIVE give_cards_loop(_, _, _)
give_cards_loop(g, player, remaining) ==
    IF remaining = 0 THEN {[g |-> g, error |-> None]}
    ELSE LET g1 == IF BagCardinality(g.deck) = 0 THEN refill_deck(g) ELSE g
         IN  IF BagCardinality(g1.deck) = 0
             THEN {[g |-> g1, error |-> "ValueError"]}
             ELSE UNION {give_cards_loop(
                            [g1 EXCEPT !.deck = remove_card(g1.deck, card),
                                       !.players[player] = receive_card(@, card)],
                            player, remaining - 1) : card \in BagToSet(g1.deck)}

\* a deal that hands the cards to the player after the one named
give_player_random_cards_to_next(g, player, number_of_cards) ==
    IF number_of_cards < 1 THEN {[g |-> g, error |-> "ValueError"]}
    ELSE give_cards_loop(g, (player + 1) % NumPlayers(g), number_of_cards)

give_player_random_cards(g, player, number_of_cards) ==
    IF number_of_cards < 1 THEN {[g |-> g, error |-> "ValueError"]}
    ELSE give_cards_loop(g, player, number_of_cards)

\* a validation that accepts the wildcard colour as the colour of a wildcard
validate_card_play_any_color(g, current_player, card_player_wants_to_play, color_for_wildcard) ==
    LET legal == can_be_played_on_top_of_other(
                     card_player_wants_to_play, top_card(g),
                     g.temporary_top_card_color, Len(g.draw_chain) > 0)
    IN  IF ~check_valid(card_player_wants_to_play) THEN "InvalidCardError"
        ELSE IF ~InList(card_player_wants_to_play, g.players[current_player])
        THEN "PlayValidationError"
        ELSE IF legal \notin {"True", "False"} THEN legal
        ELSE IF legal = "False" THEN "PlayValidationError"
        ELSE IF color_for_wildcard = None /\ is_wild_card(card_player_wants_to_play)
        THEN "PlayValidationError"
        ELSE IF color_for_wildcard # None /\ ~is_wild_card(card_player_wants_to_play)
        THEN "PlayValidationError"
        ELSE None

\* a validation that does not look into the hand
validate_card_play_any_owner(g, current_player, card_player_wants_to_play, color_for_wildcard) ==
    LET legal == can_be_played_on_top_of_other(
                     card_player_wants_to_play, top_card(g),
                     g.temporary_top_card_color, Len(g.draw_chain) > 0)
    IN  IF ~check_valid(card_player_wants_to_play) THEN "InvalidCardError"
        ELSE IF color_for_wildcard = WILDCARD THEN "PlayValidationError"
        ELSE IF legal \notin {"True", "False"} THEN legal
        ELSE IF legal = "False" THEN "PlayValidationError"
        ELSE IF color_for_wildcard = None /\ is_wild_card(card_player_wants_to_play)
        THEN "PlayValidationError"
        ELSE IF color_for_wildcard # None /\ ~is_wild_card(card_player_wants_to_play)
        THEN "PlayValidationError"
        ELSE None

\* validate_card_play: "None" when the play is valid, else the error raised
validate_card_play(g, current_player, card_player_wants_to_play, color_for_wildcard) ==
    LET legal == can_be_played_on_top_of_other(
                     card_player_wants_to_play, top_card(g),
                     g.temporary_top_card_color, Len(g.draw_chain) > 0)
    IN  IF ~check_valid(card_player_wants_to_play) THEN "InvalidCardError"
        ELSE IF color_for_wildcard = WILDCARD THEN "PlayValidationError"
        ELSE IF ~InList(card_player_wants_to_play, g.players[current_player])
        THEN "PlayValidationError"
        ELSE IF legal \notin {"True", "False"} THEN legal
        ELSE IF legal = "False" THEN "PlayValidationError"
        ELSE IF color_for_wildcard = None /\ is_wild_card(card_player_wants_to_play)
        THEN "PlayValidationError"
        ELSE IF color_for_wildcard # None /\ ~is_wild_card(card_player_wants_to_play)
        THEN "PlayValidationError"
        ELSE None

\* The handlers return the outcomes of the call: the manager each leaves, the
\* error it raised and (when it returned) the colour it returned.
\* a decline that does not look at the colour
handle_decline_ignoring_color(g, current_player, color_for_wildcard) ==
    LET n == calculate_number_of_cards_to_draw_in_current_draw_chain(g)
        cards_to_give_to_player == IF n > 1 THEN n ELSE 1
    IN  {IF given.error # None
         THEN [g |-> given.g, error |-> given.error, color |-> None]
         ELSE [g |-> [given.g EXCEPT !.draw_chain = <<>>],
               error |-> None,
               color |-> given.g.temporary_top_card_color] :
         given \in give_player_random_cards(g, current_player, cards_to_give_to_player)}

handle_player_does_not_play_a_card(g, current_player, color_for_wildcard) ==
    IF color_for_wildcard # None
    THEN {[g |-> g, error |-> "SpecifiedColorButNoCardError", color |-> None]}
    ELSE LET n == calculate_number_of_cards_to_draw_in_current_draw_chain(g)
             cards_to_give_to_player == IF n > 1 THEN n ELSE 1
         IN  {IF given.error # None
              THEN [g |-> given.g, error |-> given.error, color |-> None]
              ELSE [g |-> [given.g EXCEPT !.draw_chain = <<>>],
                    error |-> None,
                    color |-> given.g.temporary_top_card_color] :
              given \in give_player_random_cards(g, current_player, cards_to_give_to_player)}

\* a play that leaves the direction alone when a Reverse is played
handle_play_without_reverse(g, current_player, card, color_for_wildcard) ==
    LET error == validate_card_play(g, current_player, card, color_for_wildcard)
        g1 == [g EXCEPT !.players[current_player] = remove_card_from_player(@, card)]
        g2 == IF is_draw_value(card.value)
              THEN [g1 EXCEPT !.draw_chain = Append(@, card)] ELSE g1
    IN  IF error # None
        THEN {[g |-> g, error |-> error, color |-> None]}
        ELSE IF ~InList(card, g.players[current_player])
        THEN {[g |-> g, error |-> "ValueError", color |-> None]}
        ELSE {[g |-> g2, error |-> None, color |-> color_for_wildcard]}

handle_player_wants_to_play_a_card(g, current_player, card, color_for_wildcard) ==
    LET error == validate_card_play(g, current_player, card, color_for_wildcard)
        g1 == [g EXCEPT !.players[current_player] = remove_card_from_player(@, card)]
        g2 == IF is_draw_value(card.value)
              THEN [g1 EXCEPT !.draw_chain = Append(@, card)] ELSE g1
        g3 == IF card.value = REVERSE
              THEN [g2 EXCEPT !.play_direction = IF @ = -1 THEN 1 ELSE -1] ELSE g2
    IN  IF error # None
        THEN {[g |-> g, error |-> error, color |-> None]}
        \* remove_card_from_player raises for a card the hand does not hold
        ELSE IF ~InList(card, g.players[current_player])
        THEN {[g |-> g, error |-> "ValueError", color |-> None]}
        ELSE {[g |-> g3, error |-> None, color |-> color_for_wildcard]}

\* handle_play; move is <<>> (no card) or <<card>>
handle_play(g, current_player, move, color_for_wildcard) ==
    IF move = <<>>
    THEN handle_player_does_not_play_a_card(g, current_player, color_for_wildcard)
    ELSE handle_player_wants_to_play_a_card(g, current_player, move[1], color_for_wildcard)

\* a turn advance that counts the round twice
move_to_next_player_counting_twice(g) ==
    [g EXCEPT !.current_player_index = (@ + g.play_direction) % NumPlayers(g),
              !.round_number = @ + 2]

\* the end of play_one_round: the turn passes on and the round is counted
\* a turn advance that does not wrap around the table
move_to_next_player_without_wrap(g) ==
    [g EXCEPT !.current_player_index = @ + g.play_direction,
              !.round_number = @ + 1]

move_to_next_player(g) ==
    [g EXCEPT !.current_player_index = (@ + g.play_direction) % NumPlayers(g),
              !.round_number = @ + 1]

\* a round end that never sets the skip flag
after_handle_play_without_skip(g, move, temporary_top_card_color) ==
    LET g1 == IF move # <<>>
              THEN [g EXCEPT !.discard_pile = Append(@, move[1])]
              ELSE g
    IN  [g1 EXCEPT !.temporary_top_card_color = temporary_top_card_color]

\* after handle_play returned: the played card goes on the discard pile, a
\* Skip sets the flag, the returned colour becomes the assigned colour
after_handle_play(g, move, temporary_top_card_color) ==
    LET g1 == IF move # <<>>
              THEN [g EXCEPT !.discard_pile = Append(@, move[1]),
                             !.next_round_is_skip =
                                 IF move[1].value = SKIP THEN TRUE ELSE @]
              ELSE g
    IN  [g1 EXCEPT !.temporary_top_card_color = temporary_top_card_color]

\* play_one_round when the current player, if asked, answers (move, color):
\* the outcomes of the call
play_one_round(g, move, color_for_wildcard) ==
    IF game_over(g)
    THEN {[g |-> g, error |-> "GameIsOverError", asked |-> FALSE, returned |-> FALSE]}
    ELSE IF g.next_round_is_skip
    THEN LET g1 == move_to_next_player([g EXCEPT !.next_round_is_skip = FALSE])
         IN  {[g |-> g1, error |-> None, asked |-> FALSE, returned |-> game_over(g1)]}
    ELSE {IF h.error # None
          THEN [g |-> h.g, error |-> h.error, asked |-> TRUE, returned |-> FALSE]
          ELSE LET g1 == move_to_next_player(after_handle_play(h.g, move, h.color))
               IN  [g |-> g1, error |-> None, asked |-> TRUE, returned |-> game_over(g1)] :
          h \in handle_play(g, g.current_player_index, move, color_for_wildcard)}

\* _pick_first_card: a random card leaves the deck; a wildcard is put aside
\* with the whole deck, and the draw starts over from a fresh deck
RECURSIVE pick_first_card(_, _)
pick_first_card(g, redraws) ==
    UNION {IF ~is_wild_card(card)
           THEN {[g |-> [g EXCEPT !.deck = remove_card(g.deck, card)], card |-> card]}
           ELSE IF redraws > 0
           THEN pick_first_card([g EXCEPT !.deck = GameDeck], redraws - 1)
           ELSE {} : card \in BagToSet(g.deck)}

\* _give_starting_cards: the players are dealt to in order; the first error ends it
RECURSIVE give_starting_cards(_, _)
give_starting_cards(g, player) ==
    IF player = NumPlayers(g) THEN {[g |-> g, error |-> None]}
    ELSE UNION {IF given.error # None THEN {given}
                ELSE give_starting_cards(given.g, player + 1) :
                given \in give_player_random_cards(
                              g, player, g.number_of_cards_to_start_with)}

do_pre_game_setup(g) ==
    UNION {give_starting_cards(
               [first.g EXCEPT !.discard_pile = Append(@, first.card)], 0) :
           first \in pick_first_card(g, MaxRedraws)}

(***************************************************************************)
(* The state machine: a caller constructs a manager, sets the game up and  *)
(* calls play_one_round, whatever the state (before the setup too); the    *)
(* players are any implementation of Player, so a move is any card and any *)
(* colour.  A setup that raised ends the run.                              *)
(***************************************************************************)
\* the cards a player may name: those of the game
MoveCards == {<<>>} \cup {<<GameCards[i]>> : i \in DOMAIN GameCards}

\* the colours a player may name, the wildcard colour (never valid) included
MoveColors == {None, RED, BLUE, WILDCARD}

\* the round limits a game is constructed with: none at all, and one that
\* lets MaxRoundLimit rounds be played (a smaller limit stops the same games
\* earlier)
RoundLimits == {0, MaxRoundLimit}

Init ==
    /\ \E number_of_players \in 2..MaxPlayers :
       \E number_of_cards_to_start_with \in 1..MaxStartCards :
       \E round_limit \in RoundLimits :
          /\ post_init_accepts(number_of_players, number_of_cards_to_start_with)
          /\ gm = NewGameManager(number_of_players, round_limit,
                                 number_of_cards_to_start_with)
    /\ pre = gm
    /\ last = Called("__init__", None, FALSE, <<>>, None, FALSE)
    /\ pc = "new"

DoPreGameSetup ==
    /\ pc = "new"
    /\ \E out \in do_pre_game_setup(gm) :
          /\ gm' = out.g
          /\ last' = Called("_do_pre_game_setup", out.error, FALSE, <<>>, None, FALSE)
          /\ pc' = IF out.error = None THEN "ready" ELSE "failed"
    /\ pre' = gm

\* A call that raised and changed nothing leaves the manager as it was: the
\* calls that can follow it are those of the state before it, and are taken
\* from there.
PlayOneRound ==
    /\ pc \in {"new", "ready"}
    /\ ~(last.op = "play_one_round" /\ last.error # None /\ gm = pre
         /\ last.error # "GameIsOverError")
    /\ \E move \in MoveCards : \E color \in MoveColors :
       \E out \in play_one_round(gm, move, color) :
          /\ gm' = out.g
          /\ last' = Called("play_one_round", out.error, out.asked,
                            IF out.asked THEN move ELSE <<>>,
                            IF out.asked THEN color ELSE None, out.returned)
    /\ pre' = gm
    /\ pc' = pc

Next == DoPreGameSetup \/ PlayOneRound

Spec == Init /\ [][Next]_vars

(***************************************************************************)
(* play_game with BasicAIPlayer players: the setup, then one round after   *)
(* the other while the game is not over; an error ends the call.           *)
(***************************************************************************)
PlayGameRound ==
    /\ pc = "ready"
    /\ ~game_over(gm)
    /\ LET ai == get_card_to_play(gm.players[gm.current_player_index], top_card(gm),
                                  gm.temporary_top_card_color, Len(gm.draw_chain) > 0)
       IN  IF ~gm.next_round_is_skip /\ ai.error # None
           THEN /\ gm' = gm
                /\ last' = Called("play_one_round", ai.error, TRUE, <<>>, None, FALSE)
                /\ pc' = "failed"
           ELSE \E out \in play_one_round(gm, ai.move, ai.color) :
                   /\ gm' = out.g
                   /\ last' = Called("play_one_round", out.error, out.asked,
                                     IF out.asked THEN ai.move ELSE <<>>,
                                     IF out.asked THEN ai.color ELSE None,
                                     out.returned)
                   /\ pc' = IF out.error = None THEN "ready" ELSE "failed"
    /\ pre' = gm

NextAI == DoPreGameSetup \/ PlayGameRound

SpecAI == Init /\ [][NextAI]_vars

(***************************************************************************)
(* The setup on its own, for every configuration __post_init__ accepts up  *)
(* to MaxSetupStartCards cards a player: the deals that need more cards    *)
(* than the deck holds are among them.                                     *)
(***************************************************************************)
InitSetup ==
    /\ \E number_of_players \in 2..MaxPlayers :
       \E number_of_cards_to_start_with \in 1..MaxSetupStartCards :
       \E round_limit \in RoundLimits :
          /\ post_init_accepts(number_of_players, number_of_cards_to_start_with)
          /\ gm = NewGameManager(number_of_players, round_limit,
                                 number_of_cards_to_start_with)
    /\ pre = gm
    /\ last = Called("__init__", None, FALSE, <<>>, None, FALSE)
    /\ pc = "new"

NextSetup == DoPreGameSetup

SpecSetup == InitSetup /\ [][NextSetup]_vars

(***************************************************************************)
(* The operations of Card and Deck and the construction of a GameManager, *)
(* each called once on every input of a bounded set.  No manager is kept:  *)
(* last holds the arguments of the call and what it returned or raised.    *)
(* remove_card may be called a second time with the same card on the deck  *)
(* the first call left.                                                    *)
(***************************************************************************)
\* the cards of the decks: a zero card, a colour card and a wildcard
DeckCards == {Card(RED, ZERO), Card(BLUE, DRAW_2), Card(WILDCARD, DRAW_4)}

\* the decks: every list of at most MaxDeckCards of these cards
Decks ==
    UNION {{SeqToBag(list) : list \in [1..n -> DeckCards]} : n \in 0..MaxDeckCards}

InitCalls ==
    /\ gm = None
    /\ pre = None
    /\ last = [op |-> "None"]
    /\ pc = "idle"

\* Card(color, value), for every colour and value of the enumerations
NewCard ==
    /\ pc = "idle"
    /\ \E color \in CardColor : \E value \in CardValue :
          last' = [op |-> "Card", color |-> color, value |-> value,
                   error |-> card_post_init(color, value)]
    /\ pc' = "called"
    /\ UNCHANGED <<gm, pre>>

\* self.can_be_played_on_top_of_other, for every two cards that exist
CanBePlayedOnTopOfOther ==
    /\ pc = "idle"
    /\ \E self \in ValidCards : \E down_card \in ValidCards :
       \E down_wildcard_color \in CardColor \cup {None} :
       \E in_draw_chain \in BOOLEAN :
          last' = [op |-> "can_be_played_on_top_of_other",
                   self |-> self, down_card |-> down_card,
                   down_wildcard_color |-> down_wildcard_color,
                   in_draw_chain |-> in_draw_chain,
                   returned |-> can_be_played_on_top_of_other(
                                    self, down_card, down_wildcard_color,
                                    in_draw_chain)]
    /\ pc' = "called"
    /\ UNCHANGED <<gm, pre>>

CreateFullDeck ==
    /\ pc = "idle"
    /\ last' = [op |-> "create_full_deck", cards |-> create_full_deck]
    /\ pc' = "called"
    /\ UNCHANGED <<gm, pre>>

\* deck.remove_card(card): cards is the deck before the call, after the
\* deck it left; earlier is empty for a first call
RemoveCard ==
    /\ pc = "idle"
    /\ \E cards \in Decks : \E card \in DeckCards :
          last' = [op |-> "remove_card", cards |-> cards, card |-> card,
                   error |-> Deck_remove_card(cards, card).error,
                   after |-> Deck_remove_card(cards, card).cards,
                   earlier |-> <<>>]
    /\ pc' = "called"
    /\ UNCHANGED <<gm, pre>>

\* the same card removed once more after a removal that returned; earlier
\* holds the deck before the first call
RemoveCardAgain ==
    /\ pc = "called"
    /\ last.op = "remove_card" /\ last.earlier = <<>> /\ last.error = None
    /\ last' = [op |-> "remove_card", cards |-> last.after, card |-> last.card,
                error |-> Deck_remove_card(last.after, last.card).error,
                after |-> Deck_remove_card(last.after, last.card).cards,
                earlier |-> <<last.cards>>]
    /\ UNCHANGED <<gm, pre, pc>>

DrawRandomCard ==
    /\ pc = "idle"
    /\ \E cards \in Decks : \E out \in Deck_draw_random_card(cards) :
          last' = [op |-> "draw_random_card", cards |-> cards,
                   error |-> out.error, returned |-> out.card,
                   after |-> out.cards]
    /\ pc' = "called"
    /\ UNCHANGED <<gm, pre>>

\* GameManager(players, round_limit, number_of_cards_to_start_with): g holds
\* the manager when the construction returned
NewGameManagerCall ==
    /\ pc = "idle"
    /\ \E number_of_players \in 0..MaxNewPlayers :
       \E number_of_cards_to_start_with \in -1..MaxStartCards :
       \E round_limit \in RoundLimits :
          last' = [op |-> "GameManager",
                   number_of_players |-> number_of_players,
                   number_of_cards_to_start_with |-> number_of_cards_to_start_with,
                   error |-> IF post_init_accepts(number_of_players,
                                                  number_of_cards_to_start_with)
                             THEN None ELSE "ValueError",
                   g |-> IF post_init_accepts(number_of_players,
                                              number_of_cards_to_start_with)
                         THEN <<NewGameManager(number_of_players, round_limit,
                                               number_of_cards_to_start_with)>>
                         ELSE <<>>]
    /\ pc' = "called"
    /\ UNCHANGED <<gm, pre>>

\* the cards of the hands of a BasicAIPlayer: numbers of two colours, the
\* action cards and both wildcards
HandCards ==
    {Card(RED, ZERO), Card(BLUE, ZERO), Card(BLUE, SKIP), Card(BLUE, REVERSE),
     Card(RED, DRAW_2), Card(WILDCARD, PICK_COLOR), Card(WILDCARD, DRAW_4)}

\* the hands: every list of at most MaxHandCards of these cards
Hands == UNION {[1..n -> HandCards] : n \in 0..MaxHandCards}

\* the top cards the player is shown
TopCards ==
    {Card(RED, ZERO), Card(BLUE, DRAW_2), Card(GREEN, SKIP), Card(YELLOW, REVERSE),
     Card(WILDCARD, PICK_COLOR), Card(WILDCARD, DRAW_4)}

\* player.get_card_to_play(top_card, top_card_wildcard_color, in_draw_chain)
\* of a BasicAIPlayer holding hand
GetCardToPlay ==
    /\ pc = "idle"
    /\ \E hand \in Hands : \E top \in TopCards :
       \E top_card_wildcard_color \in CardColor \cup {None} :
       \E in_draw_chain \in BOOLEAN :
          LET ai == get_card_to_play(hand, top, top_card_wildcard_color,
                                     in_draw_chain)
          IN  last' = [op |-> "get_card_to_play", hand |-> hand,
                       top_card |-> top,
                       top_card_wildcard_color |-> top_card_wildcard_color,
                       in_draw_chain |-> in_draw_chain,
                       error |-> ai.error, card |-> ai.move, color |-> ai.color]
    /\ pc' = "called"
    /\ UNCHANGED <<gm, pre>>

NextCalls ==
    \/ GetCardToPlay
    \/ NewCard
    \/ CanBePlayedOnTopOfOther
    \/ CreateFullDeck
    \/ RemoveCard
    \/ RemoveCardAgain
    \/ DrawRandomCard
    \/ NewGameManagerCall

SpecCalls == InitCalls /\ [][NextCalls]_vars

(***************************************************************************)
(* What the calls do.                                                      *)
(***************************************************************************)
\* the last call was play_one_round
Round == last.op = "play_one_round"

\* the last call was a play_one_round that returned
Succeeded == Round /\ last.error = None

\* the last call asked the current player, who declined / who chose a card
Declined == Round /\ last.asked /\ last.card = <<>>
Chose == Round /\ last.asked /\ last.card # <<>>

\* the player whose turn it was when the last call started
Actor == pre.current_player_index

HasEmptyHand(g) == \E p \in DOMAIN g.players : Len(g.players[p]) = 0

\* C1: play_one_round called when some hand is empty or the round limit is
\* reached raises GameIsOverError, asks nobody and changes nothing, so the
\* game is still over afterwards.
C1_GameOverIsFinal ==
    (Round /\ (HasEmptyHand(pre) \/ pre.round_number >= pre.round_limit))
    => /\ last.error = "GameIsOverError"
       /\ ~last.asked
       /\ gm = pre
       /\ (HasEmptyHand(gm) \/ gm.round_number >= gm.round_limit)

C1_Witness ==
    /\ Round /\ last.error = "GameIsOverError"
    /\ ~HasEmptyHand(pre)
    /\ pre.round_number >= pre.round_limit /\ pre.round_limit > 0

\* C2: after setup the assigned wildcard colour is None when the top discard
\* card is a colour card, and one of the four colours when it is a wildcard.
C2_AssignedColorMatchesTopCard ==
    pc = "ready" =>
       /\ is_color_card(top_card(gm)) => gm.temporary_top_card_color = None
       /\ is_wild_card(top_card(gm)) =>
              gm.temporary_top_card_color \in {RED, BLUE, GREEN, YELLOW}

\* a player declined on a wildcard: its colour was carried over
C2_Witness ==
    /\ Succeeded /\ Declined
    /\ is_wild_card(top_card(gm))
    /\ gm.temporary_top_card_color = BLUE

\* C3: a non-empty draw chain ends with the top discard card, which is a
\* Draw2 or Draw4, and holds cards of one value only; the legality check
\* never raises InDrawChainButWrongTopCardError.
C3_DrawChainIsUniform ==
    pc = "ready" =>
       /\ Len(gm.draw_chain) > 0 =>
             /\ is_draw_value(top_card(gm).value)
             /\ top_card(gm) = gm.draw_chain[Len(gm.draw_chain)]
             /\ \A i, j \in DOMAIN gm.draw_chain :
                    gm.draw_chain[i].value = gm.draw_chain[j].value
       /\ last.error # "InDrawChainButWrongTopCardError"

\* a second draw card was played on the first
C3_Witness ==
    /\ Succeeded /\ Chose
    /\ Len(gm.draw_chain) = 2

\* C4: a player who declines receives max(2 * #Draw2 + 4 * #Draw4, 1) cards
\* of the chain, taken from the deck (refilled from the discard pile when it
\* runs dry); the chain is empty afterwards, the top card and the assigned
\* colour are as before.
ChainCount(g, value) ==
    Cardinality({i \in DOMAIN g.draw_chain : g.draw_chain[i].value = value})

CardsOwed(g) ==
    LET owed == 2 * ChainCount(g, DRAW_2) + 4 * ChainCount(g, DRAW_4)
    IN  IF owed > 1 THEN owed ELSE 1

C4_DeclineDrawsTheChain ==
    (Succeeded /\ Declined) =>
       LET before == pre.players[Actor]
           after == gm.players[Actor]
           drawn == SubSeq(after, Len(before) + 1, Len(after))
       IN  /\ Len(after) = Len(before) + CardsOwed(pre)
           /\ SubSeq(after, 1, Len(before)) = before
           /\ SeqToBag(drawn) (+) gm.deck (+) SeqToBag(gm.discard_pile)
                  = pre.deck (+) SeqToBag(pre.discard_pile)
           /\ gm.draw_chain = <<>>
           /\ top_card(gm) = top_card(pre)
           /\ gm.temporary_top_card_color = pre.temporary_top_card_color

\* a player declined on a chain of two Draw2 and drew four cards
C4_Witness ==
    /\ Succeeded /\ Declined
    /\ Len(pre.draw_chain) = 2
    /\ Len(gm.players[Actor]) = Len(pre.players[Actor]) + 4

\* C5: the round after a Skip was played (the game not being over) asks
\* nobody: it clears the flag, passes the turn on by the play direction,
\* counts the round and changes nothing else.  The flag is set by a played
\* Skip only, and then the turn is with another player than the one who
\* played it.
C5_SkipIsConsumedByTheNextPlayer ==
    /\ (Round /\ pre.next_round_is_skip
          /\ ~HasEmptyHand(pre) /\ pre.round_number < pre.round_limit)
       => /\ last.error = None
          /\ ~last.asked
          /\ gm = [pre EXCEPT
                     !.next_round_is_skip = FALSE,
                     !.current_player_index =
                         (pre.current_player_index + pre.play_direction)
                             % Cardinality(DOMAIN pre.players),
                     !.round_number = pre.round_number + 1]
    /\ (Succeeded /\ Chose /\ last.card[1].value = SKIP)
       => /\ gm.next_round_is_skip
          /\ gm.current_player_index =
                 (Actor + gm.play_direction) % Cardinality(DOMAIN gm.players)
          /\ gm.current_player_index # Actor
    /\ (Succeeded /\ gm.next_round_is_skip)
       => (Chose /\ last.card[1].value = SKIP)

\* a player was skipped
C5_Witness ==
    /\ Succeeded /\ ~last.asked
    /\ pre.next_round_is_skip /\ ~gm.next_round_is_skip
    /\ gm.round_number = pre.round_number + 1

C7_FailedRoundChangesNothing ==
    (Round /\ last.error # None) => gm = pre

\* C8: declining with a colour raises SpecifiedColorButNoCardError before
\* anything is drawn.
C8_ColorWithoutCardIsRefused ==
    (Round /\ Declined /\ last.color # None)
    => /\ last.error = "SpecifiedColorButNoCardError"
       /\ gm = pre

\* refused while a draw chain was waiting to be drawn
C8_Witness ==
    /\ Round /\ Declined /\ last.color = RED
    /\ last.error = "SpecifiedColorButNoCardError"
    /\ Len(gm.draw_chain) > 0

\* C9: play_game with BasicAIPlayer players raises nothing, never passes the
\* round limit, and ends with exactly one empty hand or, at the round limit,
\* with none.
EmptyHands(g) == {p \in DOMAIN g.players : Len(g.players[p]) = 0}

C9_PlayGameEndsWithoutError ==
    /\ last.error = None
    /\ gm.round_number <= gm.round_limit
    /\ (pc = "ready" /\ (HasEmptyHand(gm) \/ gm.round_number >= gm.round_limit))
       => \/ Cardinality(EmptyHands(gm)) = 1
          \/ EmptyHands(gm) = {} /\ gm.round_number = gm.round_limit

\* C10: after setup at most one hand is empty, _find_winner returns its
\* player (None when there is none), and a hand is emptied only by its
\* player playing a card.
C10_AtMostOneWinner ==
    pc = "ready" =>
       /\ Cardinality(EmptyHands(gm)) <= 1
       /\ \A p \in EmptyHands(gm) : find_winner(gm) = <<p>>
       /\ EmptyHands(gm) = {} => find_winner(gm) = <<>>
       /\ \A p \in EmptyHands(gm) :
              Len(pre.players[p]) > 0 => (Succeeded /\ Chose /\ Actor = p)

\* the second player played its last card and is the winner
C10_Witness ==
    /\ pc = "ready" /\ Succeeded /\ Chose
    /\ Actor = 1
    /\ find_winner(gm) = <<1>>

\* C11: in every state after setup, right after a deck refill included, the
\* discard pile is not empty, the current player index is one of the
\* players', and the play direction is +1 or -1.
C11_PileIndexDirectionInRange ==
    pc = "ready" =>
       /\ Len(gm.discard_pile) >= 1
       /\ gm.current_player_index \in 0..(NumPlayers(gm) - 1)
       /\ gm.play_direction \in {1, -1}

\* a round that refilled the deck, played against the seating order, and
\* wrapped around from the first player to the last
C11_Witness ==
    /\ pc = "ready" /\ Succeeded
    /\ Len(pre.discard_pile) > 1 /\ Len(gm.discard_pile) = 1
    /\ gm.play_direction = -1
    /\ pre.current_player_index = 0
    /\ gm.current_player_index = NumPlayers(gm) - 1

\* every card of the manager: the deck, the discard pile and the hands
RECURSIVE HandsFrom(_, _)
HandsFrom(g, p) ==
    IF p = NumPlayers(g) THEN EmptyBag
    ELSE SeqToBag(g.players[p]) (+) HandsFrom(g, p + 1)

AllCards(g) == g.deck (+) SeqToBag(g.discard_pile) (+) HandsFrom(g, 0)

\* what a completed setup leaves: one colour card on the discard pile, the
\* starting hand with every player, no draw chain, no assigned colour, and
\* the cards of one full deck
SetupCompleted(g) ==
    /\ Len(g.discard_pile) = 1
    /\ is_color_card(top_card(g))
    /\ \A p \in DOMAIN g.players :
          Len(g.players[p]) = g.number_of_cards_to_start_with
    /\ g.draw_chain = <<>>
    /\ g.temporary_top_card_color = None
    /\ AllCards(g) = GameDeck

\* C12: for every configuration the constructor accepts, the setup completes
\* with exactly one non-wildcard card on the discard pile, every player
\* holding exactly number_of_cards_to_start_with cards, an empty draw chain,
\* no assigned colour, and all cards coming from one full deck.
C12_SetupCompletes ==
    last.op = "_do_pre_game_setup" =>
       /\ last.error = None
       /\ SetupCompleted(gm)

\* the setups that return do leave that state
C12_ReturnedSetupIsComplete ==
    (last.op = "_do_pre_game_setup" /\ last.error = None) => SetupCompleted(gm)

\* the value a Python comparison returns, as the legality check returns it
Bool(b) == IF b THEN "True" ELSE "False"

\* the last call was can_be_played_on_top_of_other
Legality == last.op = "can_be_played_on_top_of_other"

\* C13: outside a draw chain a colour card on a colour top card with no
\* assigned colour is legal iff it has the top card's colour or value; a
\* colour card on a wildcard top card is legal iff its colour is the assigned
\* colour; a wildcard is legal on every top card; a colour card on a colour
\* top card with an assigned colour is a contract fault (ValueError).
C13_LegalityOutsideDrawChain ==
    (Legality /\ ~last.in_draw_chain) =>
       /\ (/\ is_color_card(last.self) /\ is_color_card(last.down_card)
           /\ last.down_wildcard_color = None)
          => last.returned = Bool(\/ last.self.color = last.down_card.color
                                  \/ last.self.value = last.down_card.value)
       /\ (/\ is_color_card(last.self) /\ is_wild_card(last.down_card)
           /\ last.down_wildcard_color \in non_wildcard_colors)
          => last.returned = Bool(last.self.color = last.down_wildcard_color)
       /\ is_wild_card(last.self) => last.returned = "True"
       /\ (/\ is_color_card(last.self) /\ is_color_card(last.down_card)
           /\ last.down_wildcard_color # None)
          => last.returned = "ValueError"

\* a card of another colour was legal because it has the top card's value
C13_Witness ==
    /\ Legality /\ ~last.in_draw_chain
    /\ is_color_card(last.self) /\ is_color_card(last.down_card)
    /\ last.down_wildcard_color = None
    /\ last.self.color # last.down_card.color
    /\ last.self.value = last.down_card.value
    /\ last.returned = "True"

\* C14: in a draw chain on a Draw2 or Draw4 top card a card is legal iff it
\* has the top card's value, whatever its colour; on any other top card the
\* check raises InDrawChainButWrongTopCardError for every card.
C14_LegalityInDrawChain ==
    (Legality /\ last.in_draw_chain) =>
       /\ last.down_card.value \in {DRAW_2, DRAW_4}
          => last.returned = Bool(last.self.value = last.down_card.value)
       /\ last.down_card.value \notin {DRAW_2, DRAW_4}
          => last.returned = "InDrawChainButWrongTopCardError"

\* a pick-colour wildcard was refused on a Draw4 in a chain
C14_Witness ==
    /\ Legality /\ last.in_draw_chain
    /\ last.down_card = Card(WILDCARD, DRAW_4)
    /\ last.self = Card(WILDCARD, PICK_COLOR)
    /\ last.returned = "False"

\* a Draw2 raised the error on a top card that draws nothing
C14_WitnessWrongTopCard ==
    /\ Legality /\ last.in_draw_chain
    /\ last.down_card = Card(RED, SKIP)
    /\ last.self = Card(RED, DRAW_2)
    /\ last.returned = "InDrawChainButWrongTopCardError"

\* the last call was remove_card
Removal == last.op = "remove_card"

\* one remove_card call: the empty-deck error on an empty deck, the
\* not-in-the-deck error on a deck without the card, both leaving the deck as
\* it was; else one copy of the card leaves and every other count stays
RemovedOneOrRefused ==
    /\ BagCardinality(last.cards) = 0
       => (last.error = "ValueError: Deck is empty" /\ last.after = last.cards)
    /\ (BagCardinality(last.cards) > 0 /\ CopiesIn(last.card, last.cards) = 0)
       => (/\ last.error = "ValueError: is not in the deck"
           /\ last.after = last.cards)
    /\ CopiesIn(last.card, last.cards) >= 1
       => /\ last.error = None
          /\ BagCardinality(last.after) = BagCardinality(last.cards) - 1
          /\ \A c \in DeckCards :
                CopiesIn(c, last.after) =
                   CopiesIn(c, last.cards) - (IF c = last.card THEN 1 ELSE 0)

\* the call removed for the second time a card the deck held once
SecondOfOne ==
    /\ Removal /\ last.earlier # <<>>
    /\ CopiesIn(last.card, last.earlier[1]) = 1

\* C15 as stated: remove_card raises the empty-deck error on an empty deck,
\* the card-not-found error on a deck without the card, and else removes
\* exactly one copy; a card removed twice from a deck that held it once
\* raises card-not-found the second time; a failure leaves the deck unchanged.
C15_RemoveCard ==
    Removal =>
       /\ RemovedOneOrRefused
       /\ SecondOfOne => last.error = "ValueError: is not in the deck"

\* C15 amended: as above, but the second removal raises card-not-found only
\* when the deck held other cards too; from a deck that held that one card
\* alone the deck is empty by then and the empty-deck error is raised.
C15_RemoveCardAmended ==
    Removal =>
       /\ RemovedOneOrRefused
       /\ SecondOfOne =>
              last.error = IF BagCardinality(last.earlier[1]) = 1
                           THEN "ValueError: Deck is empty"
                           ELSE "ValueError: is not in the deck"

\* the only card of a deck was removed twice: the deck was empty the second
\* time
C15_Witness ==
    /\ SecondOfOne
    /\ BagCardinality(last.earlier[1]) = 1
    /\ last.error = "ValueError: Deck is empty"
    /\ last.after = EmptyBag

\* the last call was draw_random_card
Draw == last.op = "draw_random_card"

\* C16: draw_random_card on a deck of N >= 1 cards returns a card the deck
\* held and leaves the deck less one copy of that card (N - 1 cards); on a
\* deck with no cards it raises the empty-deck error of remove_card, and the
\* deck stays empty.
C16_DrawRandomCard ==
    Draw =>
       /\ BagCardinality(last.cards) >= 1
          => /\ last.error = None
             /\ last.returned # <<>>
             /\ BagIn(last.returned[1], last.cards)
             /\ last.after (+) SetToBag({last.returned[1]}) = last.cards
             /\ BagCardinality(last.after) = BagCardinality(last.cards) - 1
       /\ BagCardinality(last.cards) = 0
          => /\ last.error = "ValueError: Deck is empty"
             /\ last.after = EmptyBag

\* the draws from a deck that holds a card are as the claim says
C16_DrawFromCardsReturnsOne ==
    (Draw /\ BagCardinality(last.cards) >= 1) =>
       /\ last.error = None
       /\ last.returned # <<>>
       /\ BagIn(last.returned[1], last.cards)
       /\ last.after (+) SetToBag({last.returned[1]}) = last.cards

\* the colour cards of the game: four colours, the values Zero .. Draw2
ColorCards == {Card(color, value) : color \in {RED, BLUE, GREEN, YELLOW},
                                    value \in ZERO..DRAW_2}

WildCards == {Card(WILDCARD, DRAW_4), Card(WILDCARD, PICK_COLOR)}

\* C17: create_full_deck yields exactly 108 cards: one copy of the Zero of
\* each of the four colours, two copies of every other colour card, four
\* copies of each of the two wildcards, and no other card.
C17_FullDeck ==
    last.op = "create_full_deck" =>
       /\ BagCardinality(last.cards) = 108
       /\ BagToSet(last.cards) = ColorCards \cup WildCards
       /\ \A card \in ColorCards :
             CopiesIn(card, last.cards) = IF card.value = ZERO THEN 1 ELSE 2
       /\ \A card \in WildCards : CopiesIn(card, last.cards) = 4

C17_Witness ==
    /\ last.op = "create_full_deck"
    /\ CopiesIn(Card(GREEN, ZERO), last.cards) = 1
    /\ CopiesIn(Card(YELLOW, REVERSE), last.cards) = 2
    /\ CopiesIn(Card(WILDCARD, PICK_COLOR), last.cards) = 4

\* C18: Card(color, value) is constructed iff the colour is not the wildcard
\* colour and the value is Zero .. Nine, Skip, Reverse or Draw2, or the
\* colour is the wildcard colour and the value is Draw4 or PickColor; else
\* InvalidCardError is raised.  A constructed card is a colour card or a
\* wildcard, never both.
C18_CardIsValidOrRefused ==
    last.op = "Card" =>
       /\ last.error \in {None, "InvalidCardError"}
       /\ last.error = None <=>
             \/ /\ last.color # WILDCARD
                /\ last.value \in (0..9) \cup {SKIP, REVERSE, DRAW_2}
             \/ /\ last.color = WILDCARD
                /\ last.value \in {DRAW_4, PICK_COLOR}
       /\ last.error = None =>
             is_color_card(Card(last.color, last.value))
                # is_wild_card(Card(last.color, last.value))

\* a wildcard with a number was refused
C18_Witness ==
    /\ last.op = "Card"
    /\ last.color = WILDCARD /\ last.value = 5
    /\ last.error = "InvalidCardError"

\* C19: GameManager(...) raises a configuration error (ValueError) iff the
\* number of players is outside 2 .. 10 or number_of_cards_to_start_with is
\* below 1; else the manager starts at round 0, direction +1, player 0, with
\* no draw chain, no pending skip and no assigned colour.
C19_ConstructionChecksConfiguration ==
    last.op = "GameManager" =>
       /\ last.error \in {None, "ValueError"}
       /\ last.error = "ValueError" <=>
             \/ last.number_of_players < 2
             \/ last.number_of_players > 10
             \/ last.number_of_cards_to_start_with < 1
       /\ last.error = None =>
             /\ last.g # <<>>
             /\ last.g[1].round_number = 0
             /\ last.g[1].play_direction = 1
             /\ last.g[1].current_player_index = 0
             /\ last.g[1].draw_chain = <<>>
             /\ last.g[1].next_round_is_skip = FALSE
             /\ last.g[1].temporary_top_card_color = None

\* ten players with one card each were accepted
C19_Witness ==
    /\ last.op = "GameManager"
    /\ last.number_of_players = 10
    /\ last.number_of_cards_to_start_with = 1
    /\ last.error = None
    /\ NumPlayers(last.g[1]) = 10

\* eleven players were refused
C19_WitnessRefused ==
    /\ last.op = "GameManager"
    /\ last.number_of_players = 11
    /\ last.number_of_cards_to_start_with = 1
    /\ last.error = "ValueError"

\* C20: a validated play takes exactly one copy of the chosen card out of
\* the current player's hand and puts it on top of the discard pile; the
\* card is appended to the draw chain iff it is a Draw2 or Draw4; the
\* assigned colour becomes the colour the player named (None for a colour
\* card); the skip flag is set iff the card is a Skip; the deck is unchanged.
C20_PlayMovesOneCardToThePile ==
    (Succeeded /\ Chose) =>
       /\ SeqToBag(gm.players[Actor]) (+) SetToBag({last.card[1]})
             = SeqToBag(pre.players[Actor])
       /\ Len(gm.players[Actor]) = Len(pre.players[Actor]) - 1
       /\ gm.discard_pile = Append(pre.discard_pile, last.card[1])
       /\ gm.draw_chain = IF last.card[1].value \in {DRAW_2, DRAW_4}
                          THEN Append(pre.draw_chain, last.card[1])
                          ELSE pre.draw_chain
       /\ gm.temporary_top_card_color = last.color
       /\ is_color_card(last.card[1]) => last.color = None
       /\ gm.next_round_is_skip = (last.card[1].value = SKIP)
       /\ gm.deck = pre.deck

\* a player holding two Draw4 played one of them and kept the other
C20_Witness ==
    /\ Succeeded /\ Chose
    /\ last.card = <<Card(WILDCARD, DRAW_4)>>
    /\ CopiesIn(Card(WILDCARD, DRAW_4), SeqToBag(pre.players[Actor])) = 2
    /\ CopiesIn(Card(WILDCARD, DRAW_4), SeqToBag(gm.players[Actor])) = 1
    /\ top_card(gm) = Card(WILDCARD, DRAW_4)
    /\ gm.temporary_top_card_color = BLUE

\* the last call was a play_one_round that returned after a Reverse was played
PlayedReverse == Succeeded /\ Chose /\ last.card[1].value = REVERSE

\* C21: after a round that returned, with player i on turn and direction d
\* at its start, the direction is -d if a Reverse was played in the round
\* and d otherwise, and the current player is (i + direction) mod n: the
\* Reverse flips the direction before the turn advances.  With two players
\* the turn passes to the other player.
C21_TurnAdvancesByDirection ==
    Succeeded =>
       /\ gm.play_direction = IF PlayedReverse THEN -pre.play_direction
                                               ELSE pre.play_direction
       /\ gm.current_player_index =
             (Actor + gm.play_direction) % NumPlayers(gm)
       /\ NumPlayers(gm) = 2 => gm.current_player_index = 1 - Actor

\* a Reverse played by the first of three players flipped the direction and
\* passed the turn to the last player
C21_Witness ==
    /\ PlayedReverse
    /\ NumPlayers(gm) = 3
    /\ Actor = 0
    /\ pre.play_direction = 1
    /\ gm.play_direction = -1
    /\ gm.current_player_index = 2

\* the last call had to draw more cards than the deck held: the deck ran
\* empty (or was empty) with a card still to draw, and was refilled
NeededRefill ==
    /\ Round /\ Declined
    /\ last.error \in {None, "ValueError"}
    /\ CardsOwed(pre) > BagCardinality(pre.deck)

\* the cards the acting player received in the last call
Drawn ==
    SubSeq(gm.players[Actor], Len(pre.players[Actor]) + 1, Len(gm.players[Actor]))

\* C22: when a card must be drawn and the deck is empty, the deck is refilled
\* with exactly the discard-pile cards below the top card and the discard
\* pile becomes its former top card alone; the top card and the assigned
\* colour stay.  If the discard pile held only its top card the deck is still
\* empty after the refill and the draw fails.
C22_RefillTakesThePileBelowTheTop ==
    NeededRefill =>
       /\ gm.discard_pile = <<top_card(pre)>>
       /\ gm.temporary_top_card_color = pre.temporary_top_card_color
       /\ gm.deck (+) SeqToBag(Drawn)
             = pre.deck (+) SeqToBag(SubSeq(pre.discard_pile, 1,
                                            Len(pre.discard_pile) - 1))
       /\ Len(pre.discard_pile) = 1
             => (last.error = "ValueError" /\ gm.deck = EmptyBag)

\* a player drew from an empty deck that the discard pile refilled
C22_Witness ==
    /\ NeededRefill /\ last.error = None
    /\ pre.deck = EmptyBag
    /\ Len(pre.discard_pile) > 1
    /\ Len(gm.discard_pile) = 1
    /\ Len(Drawn) >= 1

\* a player had to draw from an empty deck with one card on the discard pile
C22_WitnessNothingToRefill ==
    /\ NeededRefill /\ last.error = "ValueError"
    /\ pre.deck = EmptyBag
    /\ Len(pre.discard_pile) = 1

\* C23: every play_one_round that returned (a card played, declined, or the
\* player skipped) added exactly 1 to round_number and returned true iff
\* afterwards some hand is empty or round_number >= round_limit; so for a
\* round_limit >= 0 round_number never passes round_limit.
C23_RoundIsCountedOnce ==
    /\ Succeeded =>
          /\ gm.round_number = pre.round_number + 1
          /\ last.returned = (\/ HasEmptyHand(gm)
                              \/ gm.round_number >= gm.round_limit)
    /\ gm.round_limit >= 0 => gm.round_number <= gm.round_limit

\* the round of a skipped player reached the round limit and returned true
C23_Witness ==
    /\ Succeeded /\ ~last.asked
    /\ ~HasEmptyHand(gm)
    /\ gm.round_number = gm.round_limit
    /\ pre.round_number = gm.round_limit - 1
    /\ last.returned

\* the last call was a get_card_to_play that returned
Advised == last.op = "get_card_to_play" /\ last.error = None

\* the cards of the hand that are legal on what the player was shown
LegalInHand ==
    {i \in DOMAIN last.hand :
        can_be_played_on_top_of_other(last.hand[i], last.top_card,
                                      last.top_card_wildcard_color,
                                      last.in_draw_chain) = "True"}

\* the power of a card as the claim lists it
Power(card) ==
    CASE card.value = REVERSE -> 1
      [] card.value = SKIP -> 2
      [] card.value = PICK_COLOR -> 3
      [] card.value = DRAW_2 -> 4
      [] card.value = DRAW_4 -> 5
      [] OTHER -> 0

\* how many colour cards of the colour the hand holds
ColorCount(color) ==
    Cardinality({i \in DOMAIN last.hand : /\ ~is_wild_card(last.hand[i])
                                          /\ last.hand[i].color = color})

C25_CardsAreConserved ==
    pc = "ready" => AllCards(gm) = GameDeck

\* a round refilled the deck and left cards in the deck, on the pile and in
\* every hand
C25_Witness ==
    /\ pc = "ready"
    /\ NeededRefill /\ last.error = None
    /\ gm.deck # EmptyBag
    /\ ~HasEmptyHand(gm)
    /\ AllCards(gm) = GameDeck

\* what the BasicAIPlayer on turn answered when the last call asked it
Answer ==
    get_card_to_play(pre.players[Actor], top_card(pre),
                     pre.temporary_top_card_color, Len(pre.draw_chain) > 0)

\* C26: in a game of BasicAIPlayers started by the setup no round fails with
\* PlayValidationError, SpecifiedColorButNoCardError,
\* InDrawChainButWrongTopCardError or a contract fault of the legality check:
\* the legality check raises nothing for the player on turn, and the move it
\* returns passes validate_card_play.
C26_AIMovesAreValid ==
    (Round /\ last.asked) =>
       /\ Answer.error = None
       /\ Answer.move = <<>> => Answer.color = None
       /\ Answer.move # <<>> =>
             validate_card_play(pre, Actor, Answer.move[1], Answer.color) = None
       /\ last.error \notin {"PlayValidationError", "SpecifiedColorButNoCardError",
                              "InDrawChainButWrongTopCardError"}
       /\ last.error = "ValueError" => Answer.move = <<>>

\* a BasicAIPlayer answered a draw chain with a Draw card of its own
C26_Witness ==
    /\ Succeeded /\ Chose
    /\ Len(pre.draw_chain) > 0
    /\ last.card = Answer.move
    /\ Len(gm.draw_chain) = Len(pre.draw_chain) + 1

\* a BasicAIPlayer played a wildcard and named a colour
C26_WitnessWildcard ==
    /\ Succeeded /\ Chose
    /\ is_wild_card(last.card[1])
    /\ last.color \in non_wildcard_colors

\* C27: in every play_one_round that returned, the hand of every player but
\* the one on turn at its start is unchanged; the hand of the player on turn
\* loses exactly the one played card, or gains exactly the drawn cards at its
\* end, or is unchanged when the player was skipped.
C27_OnlyTheActorsHandChanges ==
    Succeeded =>
       /\ \A p \in DOMAIN gm.players :
             p # Actor => gm.players[p] = pre.players[p]
       /\ ~last.asked => gm.players[Actor] = pre.players[Actor]
       /\ Chose =>
             /\ Len(gm.players[Actor]) = Len(pre.players[Actor]) - 1
             /\ SeqToBag(gm.players[Actor]) (+) SetToBag({last.card[1]})
                   = SeqToBag(pre.players[Actor])
       /\ Declined =>
             /\ Len(Drawn) = CardsOwed(pre)
             /\ gm.players[Actor] = pre.players[Actor] \o Drawn
             /\ SeqToBag(Drawn) (+) gm.deck (+) SeqToBag(gm.discard_pile)
                   = pre.deck (+) SeqToBag(pre.discard_pile)

\* the second of three players drew two cards; the others kept their hands
C27_Witness ==
    /\ Succeeded /\ Declined
    /\ NumPlayers(gm) = 3
    /\ Actor = 1
    /\ Len(Drawn) = 2
    /\ gm.players[0] = pre.players[0] /\ Len(gm.players[0]) > 0
    /\ gm.players[2] = pre.players[2] /\ Len(gm.players[2]) > 0

\* a skipped player kept its hand
C27_WitnessSkipped ==
    /\ Succeeded /\ ~last.asked
    /\ gm.players = pre.players

====
